---- MODULE Spec2Model ----
(***************************************************************************)
(* The three hello_world.py scripts of example/container0..2, run by the   *)
(* Python interpreter.  A script is the sequence of its statements; the    *)
(* interpreter executes the statement at pc, one statement per step.  An   *)
(* exception raised by a statement is not caught anywhere in the scripts   *)
(* (they contain no try statement), so it ends the run.                    *)
(*                                                                         *)
(* A float32 value k * 2^-24 is represented by its numerator k.            *)
(***************************************************************************)
EXTENDS Integers, Sequences, FiniteSets

\* Number of distinct values torch.rand can draw for one element (2^24 for
\* float32 in the library); the values are 0 .. Resolution-1, i.e. [0,1).
Resolution == 2

\* torch.rand(3, 3): the two size arguments.
Rows == 3
Cols == 3

\* Bytes per element of torch's default dtype, float32.
ItemSize == 4

\* exit_code before the process has exited.
NoExit == -1

Variants == {"container0", "container1", "container2"}

VARIABLES
    variant,      \* which of the three scripts is run
    name,         \* the module's __name__
    pc,           \* index of the next statement of the script
    status,       \* "running", "exited" (process ended), "returned" (to the importer)
    exit_code,    \* process exit code, NoExit while running
    traceback,    \* index of the statement that raised, 0 if none
    sys_modules,  \* modules imported so far, in import order
    storage,      \* the element buffer shared by tensor and np_array, <<>> before allocation
    tensor,       \* <<>> while the name is unbound, else <<the tensor's view of storage>>
    np_array,     \* <<>> while the name is unbound, else <<the ndarray's view of storage>>
    stdout,       \* lines written to standard output
    trace         \* indices of the statements executed to completion, in order

vars == <<variant, name, pc, status, exit_code, traceback, sys_modules,
          storage, tensor, np_array, stdout, trace>>

----------------------------------------------------------------------------
(* Statements *)

Stmt(op, arg, line) == [op |-> op, arg |-> arg, line |-> line]

\* Body with the tensor generated a second time after the conversion.
Body_m(first) ==
    << Stmt("rand", "tensor", first),
       Stmt("numpy", "np_array", first + 3),
       Stmt("rand", "tensor", first + 4) >>

\* The statements after the imports and the banner are the same in the three scripts.
Body(first) ==
    << Stmt("rand", "tensor", first),
       Stmt("numpy", "np_array", first + 3) >>

\* Report with the two objects printed under each other's label.
Report_m(banner, first) ==
    << Stmt("print_str", banner, first),
       Stmt("print_str", "Random Tensor:", first + 1),
       Stmt("print_name", "np_array", first + 2),
       Stmt("print_str", "\nConverted Numpy Array:", first + 3),
       Stmt("print_name", "tensor", first + 4) >>

Report(banner, first) ==
    << Stmt("print_str", banner, first),
       Stmt("print_str", "Random Tensor:", first + 1),
       Stmt("print_name", "tensor", first + 2),
       Stmt("print_str", "\nConverted Numpy Array:", first + 3),
       Stmt("print_name", "np_array", first + 4) >>

Program0 ==
    << Stmt("import", "numpy", 1),
       Stmt("import", "torch", 2),
       Stmt("if_main", "__main__", 4) >>
    \o Body(6) \o Report("Using PyTorch and NumPy", 11)

\* Program1 without its last print statement.
Program1_m ==
    << Stmt("import", "numpy", 1),
       Stmt("import", "torch", 2),
       Stmt("import", "matplotlib.pyplot", 3),
       Stmt("import", "pandas", 4),
       Stmt("import", "sklearn.datasets", 5),
       Stmt("if_main", "__main__", 8),
       Stmt("rand", "tensor", 10),
       Stmt("numpy", "np_array", 13),
       Stmt("print_str", "Using PyTorch, NumPy, Matplotlib, and Scikit-learn", 15),
       Stmt("print_str", "Random Tensor:", 16),
       Stmt("print_name", "tensor", 17),
       Stmt("print_str", "\nConverted Numpy Array:", 18) >>

Program1 ==
    << Stmt("import", "numpy", 1),
       Stmt("import", "torch", 2),
       Stmt("import", "matplotlib.pyplot", 3),
       Stmt("import", "pandas", 4),
       Stmt("import", "sklearn.datasets", 5),
       Stmt("if_main", "__main__", 8) >>
    \o Body(10) \o Report("Using PyTorch, NumPy, Matplotlib, and Scikit-learn", 15)

\* Program2 without the pandas import.
Program2_m ==
    << Stmt("import", "numpy", 1),
       Stmt("import", "torch", 2),
       Stmt("if_main", "__main__", 5),
       Stmt("rand", "tensor", 7),
       Stmt("numpy", "np_array", 10),
       Stmt("print_str", "Using PyTorch, Pandas, and NumPy", 12),
       Stmt("print_str", "Random Tensor:", 13),
       Stmt("print_name", "tensor", 14),
       Stmt("print_str", "\nConverted Numpy Array:", 15),
       Stmt("print_name", "np_array", 16) >>

Program2 ==
    << Stmt("import", "numpy", 1),
       Stmt("import", "torch", 2),
       Stmt("import", "pandas", 3),
       Stmt("if_main", "__main__", 5) >>
    \o Body(7) \o Report("Using PyTorch, Pandas, and NumPy", 12)

Program(v) ==
    CASE v = "container0" -> Program0
      [] v = "container1" -> Program1
      [] v = "container2" -> Program2

Script == Program(variant)
AtEnd == pc = Len(Script) + 1
Cur == Script[pc]
At(op) == status = "running" /\ ~AtEnd /\ Cur.op = op

----------------------------------------------------------------------------
(* The tensor library and the array library *)

numel(sizes) == sizes[1] * sizes[2]

\* Strides, in elements, of a freshly allocated row-major tensor.
contiguous_strides(sizes) == << sizes[2], 1 >>

\* rand drawing from the closed interval [0,1].
rand_m(sizes) ==
    { [ view |-> [ sizes |-> sizes, strides |-> contiguous_strides(sizes),
                   storage_offset |-> 0, dtype |-> "torch.float32" ],
        data |-> d ] : d \in [ 1..numel(sizes) -> 0..Resolution ] }

\* torch.rand(*sizes): a contiguous float32 tensor over a fresh buffer whose
\* elements are drawn from [0,1).
rand(sizes) ==
    { [ view |-> [ sizes |-> sizes, strides |-> contiguous_strides(sizes),
                   storage_offset |-> 0, dtype |-> "torch.float32" ],
        data |-> d ] : d \in [ 1..numel(sizes) -> 0..(Resolution - 1) ] }

\* torch dtype -> numpy dtype of the same element width.
numpy_dtype(dtype) == CASE dtype = "torch.float32" -> "float32"

itemsize(dtype) == CASE dtype \in {"torch.float32", "float32"} -> ItemSize

\* numpy with the strides left in elements instead of bytes.
numpy_m(t) ==
    [ shape   |-> t.sizes,
      strides |-> t.strides,
      offset  |-> t.storage_offset * itemsize(t.dtype),
      dtype   |-> numpy_dtype(t.dtype) ]

\* Tensor.numpy(): an ndarray over the SAME buffer; shape from sizes, strides
\* and offset converted from elements to bytes.
numpy(t) ==
    [ shape   |-> t.sizes,
      strides |-> [ i \in 1..Len(t.strides) |-> t.strides[i] * itemsize(t.dtype) ],
      offset  |-> t.storage_offset * itemsize(t.dtype),
      dtype   |-> numpy_dtype(t.dtype) ]

\* tensor[i][j], 0-based, read from buffer mem.
TensorItem(t, mem, i, j) ==
    mem[t.storage_offset + i * t.strides[1] + j * t.strides[2] + 1]

\* np_array[i][j], 0-based, read from buffer mem.
ArrayItem(a, mem, i, j) ==
    mem[(a.offset + i * a.strides[1] + j * a.strides[2]) \div itemsize(a.dtype) + 1]

----------------------------------------------------------------------------
(* print *)

Line(kind, text, row) == [kind |-> kind, text |-> text, row |-> row]

\* splitlines that does not split at the newline.
splitlines_m(s) == << s >>

\* str.splitlines for the literals of the scripts.
splitlines(s) ==
    IF s = "\nConverted Numpy Array:"
    THEN << "", "Converted Numpy Array:" >>
    ELSE << s >>

\* The lines print(<str literal>) writes.
str_lines(s) ==
    [ i \in 1..Len(splitlines(s)) |-> Line("str", splitlines(s)[i], <<>>) ]

\* The lines print(tensor) writes: one per row, in torch's tensor(...) rendering.
tensor_repr(t, mem) ==
    [ i \in 1..t.sizes[1] |->
        Line("tensor", "", [ j \in 1..t.sizes[2] |-> TensorItem(t, mem, i - 1, j - 1) ]) ]

\* The lines print(np_array) writes: one per row, in numpy's [[...]] rendering.
array_str(a, mem) ==
    [ i \in 1..a.shape[1] |->
        Line("ndarray", "", [ j \in 1..a.shape[2] |-> ArrayItem(a, mem, i - 1, j - 1) ]) ]

----------------------------------------------------------------------------
(* Steps of the interpreter *)

Init ==
    /\ variant \in Variants
    /\ name \in {"__main__", "hello_world"}
    /\ pc = 1
    /\ status = "running"
    /\ exit_code = NoExit
    /\ traceback = 0
    /\ sys_modules = <<>>
    /\ storage = <<>>
    /\ tensor = <<>>
    /\ np_array = <<>>
    /\ stdout = <<>>
    /\ trace = <<>>

\* The statement at pc completed; go on to the next one.
Advance ==
    /\ trace' = Append(trace, pc)
    /\ pc' = pc + 1

\* import <module>
Import ==
    /\ At("import")
    /\ sys_modules' = Append(sys_modules, Cur.arg)
    /\ Advance
    /\ UNCHANGED <<variant, name, status, exit_code, traceback,
                   storage, tensor, np_array, stdout>>

\* if __name__ == "__main__": enter the block, or skip it to the end of the file.
IfMain ==
    /\ At("if_main")
    /\ trace' = Append(trace, pc)
    /\ pc' = IF name = Cur.arg THEN pc + 1 ELSE Len(Script) + 1
    /\ UNCHANGED <<variant, name, status, exit_code, traceback, sys_modules,
                   storage, tensor, np_array, stdout>>

\* tensor = torch.rand(3, 3)
Rand ==
    /\ At("rand")
    /\ \E r \in rand(<<Rows, Cols>>) :
          /\ storage' = r.data
          /\ tensor' = << r.view >>
    /\ Advance
    /\ UNCHANGED <<variant, name, status, exit_code, traceback, sys_modules,
                   np_array, stdout>>

\* np_array = tensor.numpy()
ToNumpy ==
    /\ At("numpy")
    /\ np_array' = << numpy(tensor[1]) >>
    /\ Advance
    /\ UNCHANGED <<variant, name, status, exit_code, traceback, sys_modules,
                   storage, tensor, stdout>>

\* print("<literal>")
PrintStr ==
    /\ At("print_str")
    /\ stdout' = stdout \o str_lines(Cur.arg)
    /\ Advance
    /\ UNCHANGED <<variant, name, status, exit_code, traceback, sys_modules,
                   storage, tensor, np_array>>

\* print(tensor) and print(np_array)
PrintName ==
    /\ At("print_name")
    /\ stdout' = stdout \o
                   (IF Cur.arg = "tensor"
                    THEN tensor_repr(tensor[1], storage)
                    ELSE array_str(np_array[1], storage))
    /\ Advance
    /\ UNCHANGED <<variant, name, status, exit_code, traceback, sys_modules,
                   storage, tensor, np_array>>

\* Raise with a failing import skipped (as under try/except ImportError: pass).
Raise_skip_import ==
    /\ status = "running" /\ ~AtEnd
    /\ Cur.op # "if_main"
    /\ traceback' = pc
    /\ IF Cur.op = "import"
       THEN /\ pc' = pc + 1
            /\ UNCHANGED <<status, exit_code>>
       ELSE /\ pc' = pc
            /\ status' = IF name = "__main__" THEN "exited" ELSE "returned"
            /\ exit_code' = IF name = "__main__" THEN 1 ELSE exit_code
    /\ UNCHANGED <<variant, name, sys_modules, storage, tensor, np_array,
                   stdout, trace>>

\* Raise with the exception swallowed at top level: the process exits with code 0.
Raise_exit0 ==
    /\ status = "running" /\ ~AtEnd
    /\ Cur.op # "if_main"
    /\ traceback' = pc
    /\ status' = IF name = "__main__" THEN "exited" ELSE "returned"
    /\ exit_code' = IF name = "__main__" THEN 0 ELSE exit_code
    /\ UNCHANGED <<variant, name, pc, sys_modules, storage, tensor, np_array,
                   stdout, trace>>

\* The statement at pc raises (a module fails to load, the library fails, the
\* output stream fails).  Nothing catches it: as the main program the process
\* exits with code 1, as an imported module the exception goes to the importer.
Raise ==
    /\ status = "running" /\ ~AtEnd
    /\ Cur.op # "if_main"
    /\ traceback' = pc
    /\ status' = IF name = "__main__" THEN "exited" ELSE "returned"
    /\ exit_code' = IF name = "__main__" THEN 1 ELSE exit_code
    /\ UNCHANGED <<variant, name, pc, sys_modules, storage, tensor, np_array,
                   stdout, trace>>

\* End of the file reached as the main program: the process exits with code 0.
Exit ==
    /\ status = "running" /\ AtEnd
    /\ name = "__main__"
    /\ status' = "exited"
    /\ exit_code' = 0
    /\ UNCHANGED <<variant, name, pc, traceback, sys_modules, storage, tensor,
                   np_array, stdout, trace>>

\* End of the file reached as an imported module: control returns to the importer.
Return ==
    /\ status = "running" /\ AtEnd
    /\ name # "__main__"
    /\ status' = "returned"
    /\ UNCHANGED <<variant, name, pc, exit_code, traceback, sys_modules, storage,
                   tensor, np_array, stdout, trace>>

Next ==
    \/ Import
    \/ IfMain
    \/ Rand
    \/ ToNumpy
    \/ PrintStr
    \/ PrintName
    \/ Raise
    \/ Exit
    \/ Return

Spec == Init /\ [][Next]_vars

\* The interpreter is single-threaded and synchronous: a running script always
\* takes its next step.
FairSpec == Spec /\ WF_vars(Next)

----------------------------------------------------------------------------
(* Vocabulary of the properties *)

Main == name = "__main__"
Bound(x) == x # <<>>
Success == status = "exited" /\ exit_code = 0
Failed == status = "exited" /\ exit_code # 0

\* The operation of the design a statement belongs to.
Operation(stmt) ==
    CASE stmt.op = "rand" -> "generate"
      [] stmt.op = "numpy" -> "toArray"
      [] stmt.op \in {"print_str", "print_name"} -> "report"
      [] OTHER -> "setup"

\* Positions of trace at which a statement of operation o was executed.
Ran(o) == { i \in 1..Len(trace) : Operation(Script[trace[i]]) = o }

\* The module (or the builtins) whose code a statement calls into.
callee(stmt) ==
    CASE stmt.op \in {"rand", "numpy"} -> "torch"
      [] OTHER -> "builtins"

Range(f) == { f[i] : i \in DOMAIN f }
Indices == (0..(Rows - 1)) \X (0..(Cols - 1))

TensorLabel == Line("str", "Random Tensor:", <<>>)
ArrayLabel == Line("str", "Converted Numpy Array:", <<>>)
Blank == Line("str", "", <<>>)

----------------------------------------------------------------------------
\* C1 -- Run as the main program, a script executes generate, then toArray,
\* then the statements of report, each at most once and in that order (a
\* run that exits with code 0 has executed each exactly once); toArray never
\* runs before the tensor exists, report never before the array exists; and
\* the run always terminates.
C1_Order ==
    /\ \A i, j \in 1..Len(trace) : i < j => trace[i] < trace[j]
    /\ \A g \in Ran("generate"), a \in Ran("toArray") : g < a
    /\ \A a \in Ran("toArray"), r \in Ran("report") : a < r
    /\ Cardinality(Ran("generate")) <= 1
    /\ Cardinality(Ran("toArray")) <= 1
    /\ Ran("toArray") # {} => Ran("generate") # {} /\ Bound(tensor)
    /\ Ran("report") # {} => Ran("toArray") # {} /\ Bound(np_array)
    /\ Bound(np_array) => Bound(tensor)
    /\ stdout # <<>> => Bound(np_array)
    /\ Success => /\ Cardinality(Ran("generate")) = 1
                  /\ Cardinality(Ran("toArray")) = 1
                  /\ Cardinality(Ran("report")) = 5

C1_OnceInOrderThenTerminates ==
    /\ [](Main => C1_Order)
    /\ (Main ~> status = "exited")

C1_Witness ==
    /\ Main /\ Success
    /\ Ran("generate") # {} /\ Ran("toArray") # {} /\ Ran("report") # {}

\* C2 -- Once converted, the array has the shape of the tensor and, at every
\* position, the value of the tensor, which is the value generated at that
\* position in row-major order; the element width is the same; no step
\* changes the buffer or the tensor once generated (the conversion included),
\* nor the array once converted.
C2_Equal ==
    Bound(np_array) =>
        /\ Bound(tensor)
        /\ np_array[1].shape = tensor[1].sizes
        /\ itemsize(np_array[1].dtype) = itemsize(tensor[1].dtype)
        /\ \A p \in Indices :
              /\ ArrayItem(np_array[1], storage, p[1], p[2])
                   = TensorItem(tensor[1], storage, p[1], p[2])
              /\ ArrayItem(np_array[1], storage, p[1], p[2])
                   = storage[p[1] * Cols + p[2] + 1]

C2_ArrayEqualsTensor ==
    /\ []C2_Equal
    /\ [][/\ Bound(tensor) => UNCHANGED <<storage, tensor>>
          /\ Bound(np_array) => UNCHANGED np_array]_vars

C2_Witness ==
    /\ Success
    /\ Bound(np_array)
    /\ \E p, q \in Indices :
          ArrayItem(np_array[1], storage, p[1], p[2])
            # ArrayItem(np_array[1], storage, q[1], q[2])

\* C3 -- The output of a successful run contains the line 'Random Tensor:'
\* immediately followed by the rendering of the tensor and, after it, the
\* line 'Converted Numpy Array:' immediately followed by the rendering of
\* the array; no line of the tensor's rendering directly follows the array
\* label and no line of the array's rendering directly follows the tensor label.
Follows(label, block) ==
    { i \in 1..Len(stdout) :
        /\ stdout[i] = label
        /\ i + Len(block) <= Len(stdout)
        /\ SubSeq(stdout, i + 1, i + Len(block)) = block }

C3_LabelsThenRenderings ==
    Success =>
        /\ \E i \in Follows(TensorLabel, tensor_repr(tensor[1], storage)) :
           \E j \in Follows(ArrayLabel, array_str(np_array[1], storage)) :
              i + Rows < j
        /\ \A i \in 1..(Len(stdout) - 1) :
              /\ stdout[i] = TensorLabel => stdout[i + 1].kind = "tensor"
              /\ stdout[i] = ArrayLabel => stdout[i + 1].kind = "ndarray"
        /\ stdout[Len(stdout)] \notin {TensorLabel, ArrayLabel}

C3_Witness ==
    /\ Success
    /\ Follows(TensorLabel, tensor_repr(tensor[1], storage)) # {}
    /\ Follows(ArrayLabel, array_str(np_array[1], storage)) # {}

\* C4 -- As first stated: the output of a successful run is exactly the
\* tensor label line, the tensor's rendering, the array label line and the
\* array's rendering, the tensor label being the first line written.
C4_ExactlyTwoBlocks ==
    Success =>
        stdout = << TensorLabel >> \o tensor_repr(tensor[1], storage)
                 \o << ArrayLabel >> \o array_str(np_array[1], storage)

\* C4 -- As amended: the output of a successful run is exactly one banner
\* line (naming the libraries, not one of the two labels), then the tensor
\* label line and the tensor's rendering, then one empty line, then the
\* array label line and the array's rendering; nothing else is written.
C4_BannerTwoBlocksBlankBetween ==
    Success =>
        /\ Len(stdout) = 4 + 2 * Rows
        /\ stdout[1].kind = "str"
        /\ stdout[1] \notin {TensorLabel, ArrayLabel, Blank}
        /\ Tail(stdout) = << TensorLabel >> \o tensor_repr(tensor[1], storage)
                          \o << Blank, ArrayLabel >>
                          \o array_str(np_array[1], storage)

C4_Witness ==
    /\ Success
    /\ Len(stdout) > 2 * Rows + 2
    /\ stdout[2] = TensorLabel

\* C5 -- When an import of a script run as the main program fails, the
\* process has exited with a nonzero code at that import: the statements
\* executed are exactly the imports before it, the modules loaded are
\* exactly theirs, neither the tensor nor the array exists, nothing has been
\* written to standard output, and no further step is taken.
C5_State ==
    (Main /\ traceback # 0 /\ Script[traceback].op = "import") =>
        /\ status = "exited"
        /\ exit_code \notin {0, NoExit}
        /\ pc = traceback
        /\ trace = [ i \in 1..(traceback - 1) |-> i ]
        /\ \A i \in 1..Len(trace) : Script[trace[i]].op = "import"
        /\ sys_modules = [ i \in 1..(traceback - 1) |-> Script[i].arg ]
        /\ Ran("generate") = {} /\ Ran("toArray") = {} /\ Ran("report") = {}
        /\ ~Bound(tensor) /\ ~Bound(np_array) /\ storage = <<>>
        /\ stdout = <<>>

C5_ImportFailureEndsRun ==
    /\ []C5_State
    /\ [][traceback = 0]_vars

C5_Witness ==
    /\ Main /\ Failed
    /\ traceback > 1
    /\ Script[traceback].op = "import"
    /\ Len(sys_modules) = traceback - 1

\* C6 -- A process exits with code 0 exactly when every statement of the
\* script has completed (all imports, generate, toArray, all five prints);
\* a statement that fails ends the run there with a nonzero code, and the
\* statements after it are never executed.
AllDone ==
    /\ trace = [ i \in 1..Len(Script) |-> i ]
    /\ Len(sys_modules) = Cardinality({ i \in 1..Len(Script) : Script[i].op = "import" })
    /\ Bound(tensor) /\ Bound(np_array)
    /\ Len(stdout) = 4 + 2 * Rows

C6_State ==
    /\ exit_code = 0 <=> (status = "exited" /\ traceback = 0 /\ AllDone)
    /\ (Main /\ traceback # 0) =>
          /\ status = "exited"
          /\ exit_code \notin {0, NoExit}
          /\ pc = traceback
          /\ trace = [ i \in 1..(traceback - 1) |-> i ]
    /\ status = "exited" => exit_code # NoExit

C6_ExitCode ==
    /\ []C6_State
    /\ [][status = "running"]_vars

C6_Witness ==
    /\ Main /\ Failed
    /\ traceback # 0
    /\ Script[traceback].op \in {"rand", "numpy", "print_str", "print_name"}

\* C7 -- The generated tensor has shape 3 by 3 and 9 elements, each at
\* least 0 and less than 1 (numerator less than Resolution); so has the array.
C7_ShapeAndRange ==
    /\ Bound(tensor) =>
          /\ tensor[1].sizes = << 3, 3 >>
          /\ Len(storage) = 9
          /\ \A p \in (0..2) \X (0..2) :
                /\ TensorItem(tensor[1], storage, p[1], p[2]) >= 0
                /\ TensorItem(tensor[1], storage, p[1], p[2]) < Resolution
    /\ Bound(np_array) =>
          /\ np_array[1].shape = << 3, 3 >>
          /\ \A p \in (0..2) \X (0..2) :
                /\ ArrayItem(np_array[1], storage, p[1], p[2]) >= 0
                /\ ArrayItem(np_array[1], storage, p[1], p[2]) < Resolution

C7_Witness ==
    /\ Bound(tensor) /\ Bound(np_array)
    /\ \E p \in Indices : TensorItem(tensor[1], storage, p[1], p[2]) = Resolution - 1
    /\ \E p \in Indices : TensorItem(tensor[1], storage, p[1], p[2]) = 0

\* The three kinds of collaborator no statement of the scripts uses.
Kind(module) ==
    CASE module = "matplotlib.pyplot" -> "plotting"
      [] module = "pandas" -> "tabular data"
      [] module = "sklearn.datasets" -> "sample datasets"
      [] OTHER -> "numeric"

UnusedKinds == {"plotting", "tabular data", "sample datasets"}

\* The unused kinds a script imports, and those loaded so far in this run.
ImportedKinds(prog) ==
    { Kind(prog[i].arg) : i \in { k \in 1..Len(prog) : prog[k].op = "import" } }
        \cap UnusedKinds
LoadedKinds == { Kind(m) : m \in Range(sys_modules) } \cap UnusedKinds

ImportsDone == traceback = 0 /\ \E i \in 1..Len(trace) : Script[trace[i]].op = "if_main"

NeverInvoked ==
    \A i \in 1..Len(trace) :
        Script[trace[i]].op # "import" =>
            /\ callee(Script[trace[i]]) \in {"torch", "builtins"}
            /\ Kind(callee(Script[trace[i]])) \notin UnusedKinds

\* C9 -- As first stated: exactly two variants load unused collaborators,
\* each of the two loads all three kinds, and none is ever invoked.
C9_TwoVariantsLoadAllThreeKinds ==
    /\ Cardinality({ v \in Variants : ImportedKinds(Program(v)) # {} }) = 2
    /\ (ImportsDone /\ LoadedKinds # {}) => LoadedKinds = UnusedKinds
    /\ NeverInvoked

\* C9 -- As amended: exactly two variants load unused collaborators:
\* container1 loads all three kinds, container2 only the tabular-data one
\* (container0 none); in no variant is any of them invoked after the imports.
C9_TwoVariantsLoadUnusedKinds ==
    /\ Cardinality({ v \in Variants : ImportedKinds(Program(v)) # {} }) = 2
    /\ ImportsDone =>
          LoadedKinds = CASE variant = "container0" -> {}
                          [] variant = "container1" -> UnusedKinds
                          [] variant = "container2" -> {"tabular data"}
    /\ NeverInvoked

C9_Witness ==
    /\ Success
    /\ variant = "container2"
    /\ LoadedKinds = {"tabular data"}
    /\ Ran("report") # {}

\* What the print statements of a script write, given the objects of this run.
Written(stmt) ==
    CASE stmt.op = "print_str" -> str_lines(stmt.arg)
      [] stmt.op = "print_name" /\ stmt.arg = "tensor" -> tensor_repr(tensor[1], storage)
      [] stmt.op = "print_name" /\ stmt.arg = "np_array" -> array_str(np_array[1], storage)
      [] OTHER -> <<>>

RECURSIVE Output(_, _)
Output(prog, n) == IF n = 0 THEN <<>> ELSE Output(prog, n - 1) \o Written(prog[n])

IsStep(stmt) == Operation(stmt) # "setup"
StepsOf(prog) ==
    [ i \in 1..Len(SelectSeq(prog, IsStep)) |-> Operation(SelectSeq(prog, IsStep)[i]) ]
StepsRun == StepsOf([ i \in 1..Len(trace) |-> Script[trace[i]] ])

\* C10 -- As first stated: a successful run of any variant performs the steps
\* container0 performs and writes, line for line, what container0 writes
\* for the same tensor.
C10_SameStepsSameOutput ==
    Success =>
        /\ StepsRun = StepsOf(Program0)
        /\ stdout = Output(Program0, Len(Program0))

\* C10 -- As amended: a successful run of any variant performs the steps
\* container0 performs and writes, line for line, what container0 writes
\* for the same tensor, except for the first line (the banner), which is
\* different in each variant.
C10_SameStepsSameOutputButBanner ==
    Success =>
        /\ StepsRun = StepsOf(Program0)
        /\ Len(stdout) = Len(Output(Program0, Len(Program0)))
        /\ Tail(stdout) = Tail(Output(Program0, Len(Program0)))
        /\ \A v \in Variants \ {variant} :
              stdout[1] # Output(Program(v), Len(Program(v)))[1]

C10_Witness ==
    /\ Success
    /\ variant = "container1"
    /\ stdout[1] # Output(Program0, Len(Program0))[1]
    /\ \E i, j \in 1..Len(storage) : storage[i] # storage[j]

====
